---- MODULE Spec2Model ----
(***************************************************************************)
(* Model of the ArabicRTLCorrector engine (content script): a live tree    *)
(* of nodes, the text cache and processed set, the debounced mutation      *)
(* watcher, the frame-paced batch scheduler and enable/disable/scan.       *)
(***************************************************************************)
EXTENDS Integers, Sequences, FiniteSets, TLC

(***************************************************************************)
(* Bounds of the model.                                                    *)
(***************************************************************************)
\* number of external changes to the tree (text, insert, remove, dir)
MaxDomOps == 2
\* number of batches that may have a frame callback pending at once
MaxBatches == 2
\* largest number of letters of a text whose ratio is passed to
\* applyRTLStyles directly
MaxDen == 12
\* runtime messages that may wait for the content script at once
MaxInbox == 1
\* storage change events that may wait for the content script at once
MaxEvents == 2
\* longest text (in abstract characters) handed to calculateArabicRatio
\* directly
MaxTextLen == 5

(***************************************************************************)
(* The document.  Node 3 is a container whose only child is node 1; node 2 *)
(* is a sibling of node 3.  Parent 0 is the document body.                 *)
(***************************************************************************)
Nodes == {1, 2, 3}
Body == 0
Parent(n) == IF n = 1 THEN 3 ELSE Body
DocOrder == <<3, 1, 2>>

\* Characters are abstracted to their class: Arabic letter, Latin letter,
\* digit, whitespace, and "U" for the seven characters "http://".
Arabic == "A"
Latin == "L"
Digit == "D"
Space == "S"
UrlPrefix == "U"

NoText == <<"none">>
NoRatio == -1

VARIABLES
    tagName,            \* DOM: element.tagName of each node (fixed per run)
    skipAttr,           \* DOM: nodes carrying data-rtl-skip (fixed per run)
    hidden,             \* DOM: nodes with computed display none (fixed per run)
    iframes,            \* DOM: number of same-origin iframe elements in the
                        \* document (fixed per run)
    failing,            \* DOM: the step of processElement in which a call on
                        \* the node throws ("none", "text", "classify",
                        \* "style"; fixed per run)
    ownText,            \* DOM: the text node directly under each node
    attached,           \* DOM: whether the node is a child of its parent
    dir,                \* DOM: the dir attribute ("" when absent)
    style,              \* DOM: inline direction/textAlign/unicodeBidi/transition
    rtlApplied,         \* DOM: nodes carrying data-rtl-applied="true"
    arabicRatioAttr,    \* DOM: data-arabic-ratio in hundredths, NoRatio if absent
    processedElements,  \* engine: this.processedElements
    textCache,          \* engine: this.textCache (NoText when no entry)
    isEnabled,          \* engine: this.isEnabled
    isProcessing,       \* engine: this.isProcessing
    debounceTimer,      \* engine: this.debounceTimer, the id setTimeout returned
    timeouts,           \* host: pending setTimeout callbacks (id, mutations of
                        \* the closure, whether the delay has elapsed)
    observer,           \* engine: this.observer is connected
    domReady,           \* engine: handleDOMContentLoaded has run
    rafQueue,           \* host: pending requestAnimationFrame callbacks
    domOps,             \* number of external tree changes so far
    sliceTime,          \* host: performance.now() - startTime when the last
                        \* slice returned
    rtlCorrector,       \* content script: rtlCorrector is not null
    storage,            \* chrome.storage.sync: the values of the two keys
    syncPending,        \* content script: the callback of storage.sync.get
                        \* in syncWithPopupState has not run yet
    changeEvents,       \* host: storage.onChanged events not yet delivered to
                        \* the content script
    inbox,              \* host: runtime messages not yet delivered
    reply,              \* host: what sendResponse was given for the message
                        \* handled last
    phase,              \* history: "disabled" after disable(), "reenabled"
                        \* after the enable() that follows it
    dropped,            \* history: nodes whose text mutation handleMutations
                        \* dropped and that were not processed since
    burst,              \* history: nodes affected by the batches accepted
                        \* since the debounce timer was last idle
    lastRatio,          \* history: the ratio of the previous direct call of
                        \* applyRTLStyles on each node (ApplySpec)
    child,              \* the engine handleIframes created for the iframe
    childRaf,           \* host: pending frame callbacks of the child's batches
    frameState,         \* the embedded document: "none", "loading" (its load
                        \* event is still to come) or "loaded"
    frameStyled,        \* the paragraph of the embedded document carries the
                        \* marker
    sample,             \* the text of the last direct call of
                        \* calculateArabicRatio (ClassifySpec)
    sampleRatio         \* what that call returned

vars == <<tagName, skipAttr, hidden, iframes, failing, child, childRaf,
          frameState, frameStyled, ownText, attached, dir, style, rtlApplied,
          arabicRatioAttr, processedElements, textCache, isEnabled,
          isProcessing, debounceTimer, timeouts, observer, domReady, rafQueue,
          domOps, sliceTime, rtlCorrector, storage, syncPending, changeEvents,
          inbox, reply, phase, dropped, burst, lastRatio, sample,
          sampleRatio>>

domFixed == <<tagName, skipAttr, hidden, iframes, failing>>
frameDoc == <<frameState, frameStyled>>
embedded == <<child, childRaf, frameDoc>>
domTree == <<ownText, attached, dir>>
domStyle == <<style, rtlApplied, arabicRatioAttr>>
timer == <<debounceTimer, timeouts>>
clock == <<sliceTime>>
classifier == <<sample, sampleRatio>>
calls == <<lastRatio, classifier>>
script == <<rtlCorrector, storage, syncPending, changeEvents, inbox, reply>>
\* what no method of the engine writes
outside == <<calls, script>>
history == <<phase, dropped, burst>>

(***************************************************************************)
(* Configuration (constructor defaults / initializeRTLCorrector).          *)
(***************************************************************************)
\* arabicThreshold 0.3 as a fraction
ThresholdNum == 3
ThresholdDen == 10
enableVisualFeedback == TRUE
\* text.trim().length < 3 leaves the node unclassified
MinTextLength == 3
\* maxProcessingTime: the budget of one slice in milliseconds
maxProcessingTime == 16

targetTags == {"P", "SPAN", "H1", "H2", "H3", "H4", "H5", "H6", "INPUT",
               "TEXTAREA", "LABEL", "BUTTON", "A", "LI", "TD", "TH"}
skipTags == {"CODE", "PRE", "SCRIPT", "STYLE", "NOSCRIPT", "DIV"}
alwaysCheckTags == {"SPAN", "H1", "A", "P"}

NoStyle == [direction |-> "", textAlign |-> "", unicodeBidi |-> "", transition |-> ""]

(***************************************************************************)
(* Tree helpers.                                                           *)
(***************************************************************************)
RECURSIVE isConnected(_)
isConnected(n) ==
    IF n = Body THEN TRUE
    ELSE attached[n] /\ isConnected(Parent(n))

Children(n) == SelectSeq(DocOrder, LAMBDA c : Parent(c) = n)

RECURSIVE textContent(_)
RECURSIVE ConcatChildren(_)
ConcatChildren(cs) ==
    IF cs = <<>> THEN <<>>
    ELSE (IF attached[Head(cs)] THEN textContent(Head(cs)) ELSE <<>>)
         \o ConcatChildren(Tail(cs))
textContent(n) == ownText[n] \o ConcatChildren(Children(n))

RECURSIVE IsDescendant(_, _)
IsDescendant(n, root) ==
    IF n = Body THEN FALSE
    ELSE /\ attached[n]
         /\ (Parent(n) = root \/ IsDescendant(Parent(n), root))

(***************************************************************************)
(* Classifier.                                                             *)
(***************************************************************************)
CharLen(c) == IF c = UrlPrefix THEN 7 ELSE 1

RECURSIVE JsLength(_)
JsLength(s) == IF s = <<>> THEN 0 ELSE CharLen(Head(s)) + JsLength(Tail(s))

RECURSIVE TrimLeft(_)
TrimLeft(s) ==
    IF s # <<>> /\ Head(s) = Space THEN TrimLeft(Tail(s)) ELSE s

RECURSIVE TrimRight(_)
TrimRight(s) ==
    IF s # <<>> /\ s[Len(s)] = Space THEN TrimRight(SubSeq(s, 1, Len(s) - 1))
    ELSE s

trim(s) == TrimRight(TrimLeft(s))

\* .replace(/\s+/g, "")
StripWhitespace(s) == SelectSeq(s, LAMBDA c : c # Space)

\* .replace(ltrPreserveRegex, "") on a string without whitespace: a digit
\* run is dropped; "http://" followed by at least one character matches
\* [^\s]+ up to the end of the string.
RECURSIVE StripLtrPreserve(_)
StripLtrPreserve(s) ==
    IF s = <<>> THEN <<>>
    ELSE IF Head(s) = Digit THEN StripLtrPreserve(Tail(s))
    ELSE IF Head(s) = UrlPrefix /\ Len(s) > 1 THEN <<>>
    ELSE <<Head(s)>> \o StripLtrPreserve(Tail(s))

\* .replace(/[^\p{L}]/gu, ""): an unmatched "http://" keeps its 4 letters
RECURSIVE KeepLetters(_)
KeepLetters(s) ==
    IF s = <<>> THEN <<>>
    ELSE (IF Head(s) \in {Arabic, Latin} THEN <<Head(s)>>
          ELSE IF Head(s) = UrlPrefix THEN <<Latin, Latin, Latin, Latin>>
          ELSE <<>>) \o KeepLetters(Tail(s))

ZeroRatio == [num |-> 0, den |-> 1]
\* applyRTLStyles has not been called on the node
NoCall == [num |-> -1, den |-> 1]

calculateArabicRatio(text) ==
    IF text = <<>> \/ trim(text) = <<>> THEN ZeroRatio
    ELSE LET cleanText == KeepLetters(StripLtrPreserve(StripWhitespace(text)))
         IN  IF cleanText = <<>> THEN ZeroRatio
             ELSE [num |-> Len(SelectSeq(cleanText, LAMBDA c : c = Arabic)),
                   den |-> Len(cleanText)]

\* arabicRatio.toFixed(2), in hundredths
toFixed2(r) == (200 * r.num + r.den) \div (2 * r.den)


\* arabicRatio >= arabicThreshold
AtLeastThreshold(r) == r.num * ThresholdDen >= ThresholdNum * r.den

\* Math.abs(parseFloat(existingRatio) - arabicRatio) < 0.01
WithinOneHundredth(existing, r) ==
    LET d == existing * r.den - 100 * r.num
    IN  (IF d < 0 THEN -d ELSE d) < r.den

(***************************************************************************)
(* Text extractor, target selector, style applicator.  The operators work  *)
(* on a record st of the fields a handler writes while it runs:            *)
(* cache, processed, style, applied, ratio.                                *)
(***************************************************************************)
EngineState ==
    [cache |-> textCache, processed |-> processedElements, style |-> style,
     applied |-> rtlApplied, ratio |-> arabicRatioAttr]

\* the text getElementText extracts (value + " " + placeholder for inputs)
ElementText(n) ==
    IF tagName[n] \in {"INPUT", "TEXTAREA"} THEN ownText[n] \o <<Space>>
    ELSE textContent(n)

\* what getElementText returns: "" from its catch clause when reading the
\* node throws
ExtractedText(n) == IF failing[n] = "text" THEN <<>> ELSE ElementText(n)

\* the cache after getElementText: the catch clause skips textCache.set
CacheAfterText(cache, n) ==
    IF failing[n] = "text" THEN cache ELSE [cache EXCEPT ![n] = ElementText(n)]

getElementText(st, n) == [st EXCEPT !.cache = CacheAfterText(st.cache, n)]

matchesTarget(n) == tagName[n] \in targetTags
matchesSkip(n) == tagName[n] \in skipTags \/ n \in skipAttr

RECURSIVE isElementVisible(_)
isElementVisible(n) ==
    IF n = Body THEN TRUE
    ELSE attached[n] /\ n \notin hidden /\ isElementVisible(Parent(n))

\* root.querySelectorAll(selector), in document order
QuerySelectorAll(root) ==
    SelectSeq(DocOrder, LAMBDA n :
        /\ matchesTarget(n)
        /\ IF root = Body THEN isConnected(n) ELSE IsDescendant(n, root))

\* the filter callback of getTargetElements: result and cache afterwards
FilterElement(processed, cache, n) ==
    IF matchesSkip(n) THEN [keep |-> FALSE, cache |-> cache]
    ELSE IF ~isElementVisible(n) THEN [keep |-> FALSE, cache |-> cache]
    ELSE IF n \in processed /\ cache[n] # NoText
         THEN \* getElementText caches currentText before cachedText is read
              LET cache2 == CacheAfterText(cache, n)
              IN  [keep |-> ~(ExtractedText(n) = cache2[n]), cache |-> cache2]
    ELSE [keep |-> TRUE, cache |-> cache]

RECURSIVE FilterAll(_, _, _, _)
FilterAll(cands, processed, cache, acc) ==
    IF cands = <<>> THEN [elements |-> acc, cache |-> cache]
    ELSE LET f == FilterElement(processed, cache, Head(cands))
         IN  FilterAll(Tail(cands), processed, f.cache,
                       IF f.keep THEN Append(acc, Head(cands)) ELSE acc)

getTargetElements(root, processed, cache) ==
    FilterAll(QuerySelectorAll(root), processed, cache, <<>>)

getBestTextAlign(n) ==
    IF tagName[n] = "BUTTON" THEN "center"
    ELSE IF tagName[n] \in {"TD", "TH"} THEN "inherit"
    ELSE "right"

toLowerCase(d) == IF d = "LTR" THEN "ltr" ELSE d

\* a variant that sets direction, embed and right alignment on every tag
WriteRTLStyles_AllTags(st, n, r) ==
    IF st.ratio[n] # NoRatio /\ WithinOneHundredth(st.ratio[n], r) THEN st
    ELSE [st EXCEPT
            !.style[n] = [direction |-> "rtl", textAlign |-> "right",
                          unicodeBidi |-> "embed",
                          transition |-> IF enableVisualFeedback
                                         THEN "all 0.3s ease"
                                         ELSE st.style[n].transition],
            !.applied = @ \cup {n},
            !.ratio[n] = toFixed2(r)]

\* lines 460-490 of applyRTLStyles: the ratio short-cut and the writes
WriteRTLStyles(st, n, r) ==
    IF st.ratio[n] # NoRatio /\ WithinOneHundredth(st.ratio[n], r) THEN st
    ELSE LET bidi == IF 10 * r.num > 7 * r.den THEN "bidi-override" ELSE "plaintext"
             styles ==
                 IF tagName[n] # "DIV"
                 THEN [direction |-> "rtl", textAlign |-> "right",
                       unicodeBidi |-> "embed"]
                 ELSE [direction |-> st.style[n].direction,
                       textAlign |-> getBestTextAlign(n), unicodeBidi |-> bidi]
         IN  [st EXCEPT
                !.style[n] = [direction |-> styles.direction,
                              textAlign |-> styles.textAlign,
                              unicodeBidi |-> styles.unicodeBidi,
                              transition |-> IF enableVisualFeedback
                                             THEN "all 0.3s ease"
                                             ELSE st.style[n].transition],
                !.applied = @ \cup {n},
                !.ratio[n] = toFixed2(r)]

\* a variant that compares the dir attribute without toLowerCase
applyRTLStyles_CaseSensitive(st, n, r) ==
    IF dir[n] = "ltr" THEN st
    ELSE IF failing[n] = "style" THEN st
    ELSE WriteRTLStyles(st, n, r)

\* a write on a failing node throws before it changes the node; the catch
\* clause of applyRTLStyles logs the error
applyRTLStyles(st, n, r) ==
    IF toLowerCase(dir[n]) = "ltr" THEN st
    ELSE IF failing[n] = "style" THEN st
    ELSE WriteRTLStyles(st, n, r)

\* a variant without the always-check branch
ShouldApply_ThresholdOnly(n, r) == AtLeastThreshold(r)

\* the styling decision of processElement
ShouldApply(n, r) ==
    \/ tagName[n] \in alwaysCheckTags /\ r.num > 0
    \/ AtLeastThreshold(r)

processElement(st, n) ==
    IF ~isConnected(n) THEN st
    ELSE LET st1 == getElementText(st, n)
             text == ExtractedText(n)
         IN  IF text = <<>> \/ JsLength(trim(text)) < MinTextLength THEN st1
             ELSE LET r == IF failing[n] = "classify"
                           THEN ZeroRatio  \* the catch clause returns 0
                           ELSE calculateArabicRatio(text)
                      st2 == IF ShouldApply(n, r) THEN applyRTLStyles(st1, n, r)
                             ELSE st1
                  IN  [st2 EXCEPT !.processed = @ \cup {n}]

\* the while loop of processChunk over elements[from..to]
RECURSIVE ProcessRange(_, _, _, _)
ProcessRange(st, elements, from, to) ==
    IF from > to THEN st
    ELSE ProcessRange(IF isConnected(elements[from])
                      THEN processElement(st, elements[from]) ELSE st,
                      elements, from + 1, to)


(***************************************************************************)
(* Mutation records and the change watcher.                                *)
(***************************************************************************)
\* a childList record with one added element
AddedRecord(n) == [type |-> "childList", added |-> {n}, target |-> Body]
\* a childList record with only removed nodes
RemovedRecord(n) == [type |-> "childList", added |-> {}, target |-> Body]
\* a characterData record of the text node under n (target.parentElement = n)
TextRecord(n) == [type |-> "characterData", added |-> {}, target |-> n]

\* this.debounceTimer = null
NoTimer == 0

\* the reply of the message listener: kind is "none" before sendResponse is
\* called, "response" for sendResponse(...), "uncaught" when the listener
\* throws; stats and error are absent when NoStats and ""
NoStats == [totalProcessed |-> -1]
NoReply == [kind |-> "none", success |-> FALSE, stats |-> NoStats, error |-> ""]
Uncaught == [kind |-> "uncaught", success |-> FALSE, stats |-> NoStats, error |-> ""]
Success(stats) == [kind |-> "response", success |-> TRUE, stats |-> stats, error |-> ""]
Failure(error) == [kind |-> "response", success |-> FALSE, stats |-> NoStats, error |-> error]

\* clearTimeout(id): an id that is not pending is ignored
clearTimeout(table, id) == {t \in table : t.id # id}

\* the id the host gives to the next timeout
FreshTimerId(table) ==
    CHOOSE i \in 1..(Cardinality(table) + 1) : \A t \in table : t.id # i

\* setTimeout(() => this.processMutations(mutations), debounceDelay)
setTimeout(table, mutations) ==
    table \cup {[id |-> FreshTimerId(table), mutations |-> mutations,
                 elapsed |-> FALSE]}

\* the nodes a batch of records affects: added elements and the parents of
\* changed text nodes (text tells the two apart)
RECURSIVE Affected(_)
Affected(mutations) ==
    IF mutations = <<>> THEN {}
    ELSE (IF Head(mutations).type = "childList"
          THEN {[node |-> n, text |-> FALSE] : n \in Head(mutations).added}
          ELSE {[node |-> Head(mutations).target, text |-> TRUE]})
         \cup Affected(Tail(mutations))

\* elementsToProcess.add: a Set keeps insertion order without duplicates
RECURSIVE AddAll(_, _)
AddAll(acc, elems) ==
    IF elems = <<>> THEN acc
    ELSE AddAll(IF \E i \in 1..Len(acc) : acc[i] = Head(elems) THEN acc
                ELSE Append(acc, Head(elems)), Tail(elems))

\* a variant without this.processedElements.delete(target)
MutationStep_KeepProcessed(m, mutation) ==
    IF mutation.type = "childList"
    THEN IF mutation.added = {} THEN m
         ELSE LET node == CHOOSE n \in mutation.added : TRUE
                  children == getTargetElements(node, m.processed, m.cache)
              IN  [processed |-> m.processed, cache |-> children.cache,
                   elements |-> AddAll(m.elements, <<node>> \o children.elements)]
    ELSE [processed |-> m.processed,
          cache |-> [m.cache EXCEPT ![mutation.target] = NoText],
          elements |-> AddAll(m.elements, <<mutation.target>>)]

\* the forEach of processMutations: m is [processed, cache, elements]
MutationStep(m, mutation) ==
    IF mutation.type = "childList"
    THEN IF mutation.added = {} THEN m
         ELSE LET node == CHOOSE n \in mutation.added : TRUE
                  children == getTargetElements(node, m.processed, m.cache)
              IN  [processed |-> m.processed, cache |-> children.cache,
                   elements |-> AddAll(m.elements, <<node>> \o children.elements)]
    ELSE [processed |-> m.processed \ {mutation.target},
          cache |-> [m.cache EXCEPT ![mutation.target] = NoText],
          elements |-> AddAll(m.elements, <<mutation.target>>)]

RECURSIVE MutationFold(_, _)
MutationFold(m, mutations) ==
    IF mutations = <<>> THEN m
    ELSE MutationFold(MutationStep(m, Head(mutations)), Tail(mutations))

\* processElementsBatch(elements) given the current isProcessing flag
processElementsBatch(elements) ==
    IF elements = <<>> \/ isProcessing
    THEN UNCHANGED <<isProcessing, rafQueue>>
    ELSE /\ isProcessing' = TRUE
         /\ rafQueue' = Append(rafQueue, [elements |-> elements, currentIndex |-> 1])

\* a variant without clearTimeout(this.debounceTimer)
handleMutations_NoClear(mutations) ==
    IF ~isEnabled \/ isProcessing
    THEN /\ UNCHANGED <<timer, burst>>
         /\ dropped' = dropped \cup
                {mutations[i].target : i \in {j \in 1..Len(mutations) :
                                                mutations[j].type = "characterData"}}
    ELSE /\ debounceTimer' = FreshTimerId(timeouts)
         /\ timeouts' = setTimeout(timeouts, mutations)
         /\ burst' = (IF timeouts = {} THEN {} ELSE burst)
                          \cup Affected(mutations)
         /\ UNCHANGED dropped

\* handleMutations(mutations), called by the observer
handleMutations(mutations) ==
    IF ~isEnabled \/ isProcessing
    THEN /\ UNCHANGED <<timer, burst>>
         /\ dropped' = dropped \cup
                {mutations[i].target : i \in {j \in 1..Len(mutations) :
                                                mutations[j].type = "characterData"}}
    ELSE LET cleared == clearTimeout(timeouts, debounceTimer)
         IN  /\ debounceTimer' = FreshTimerId(cleared)
             /\ timeouts' = setTimeout(cleared, mutations)
             /\ burst' = (IF timeouts = {} THEN {} ELSE burst)
                              \cup Affected(mutations)
             /\ UNCHANGED dropped

\* the observer delivers records only for changes inside document.body
Notify(observed, mutations) ==
    IF observer /\ observed THEN handleMutations(mutations)
    ELSE UNCHANGED <<timer, dropped, burst>>

\* scanDOM(document) when isEnabled has the value enabled
scanDOM(enabled) ==
    IF ~enabled \/ isProcessing
    THEN UNCHANGED <<textCache, isProcessing, rafQueue>>
    ELSE LET found == getTargetElements(Body, processedElements, textCache)
         IN  /\ textCache' = found.cache
             /\ processElementsBatch(found.elements)

\* the start of a batch is possible only below the bound of the model
BelowBatchBound == Len(rafQueue) < MaxBatches

(***************************************************************************)
(* Initial state: the engine is constructed over some small document.      *)
(***************************************************************************)
ShortText == <<Arabic, Arabic>>            \* shorter than 3 characters
LatinText == <<Latin, Latin, Latin>>       \* ratio 0
ArabicText == <<Arabic, Arabic, Latin>>    \* ratio 0.67
LowText == <<Arabic, Latin, Latin, Latin, Latin>>    \* ratio 0.2

\* the texts the page writes into each node after the engine started
Texts ==
    [n \in Nodes |-> IF n = 1 THEN {ShortText, LatinText}
                     ELSE IF n = 2 THEN {ShortText, ArabicText}
                     ELSE {ArabicText}]

\* the nodes whose dir attribute the page changes
DirNodes == {1, 2}

DirValues == {"", "ltr", "LTR"}

\* no child engine has been created
NoChild ==
    [created |-> FALSE, enableIframeHandling |-> FALSE, isEnabled |-> FALSE,
     isProcessing |-> FALSE, processed |-> {},
     cache |-> [n \in Nodes |-> NoText], observer |-> FALSE,
     frameProcessed |-> FALSE]

\* the paragraph of the embedded document
FrameNode == 4

\* no call on any node throws
NoFailure == [n \in Nodes |-> "none"]

\* the runs in which the calls of one step throw on one node
Failures ==
    {[n \in Nodes |-> IF n = f THEN step ELSE "none"] :
        f \in {1, 2}, step \in {"text", "classify", "style"}}

\* tags of nodes 1..3, nodes with data-rtl-skip, nodes with display none
Layouts ==
    { [tags |-> <<"P", "LI", "DIV">>, skip |-> {}, hidden |-> {}],
      [tags |-> <<"H2", "TD", "LI">>, skip |-> {3}, hidden |-> {2}] }

\* the text of node 1 when the engine is constructed
InitialTexts == { LowText }

\* the engine constructed over a document with one of the given layouts
InitDocument(layouts) ==
    /\ \E layout \in layouts :
          /\ tagName = [n \in Nodes |-> layout.tags[n]]
          /\ skipAttr = layout.skip
          /\ hidden = layout.hidden
    /\ \E t \in InitialTexts :
          ownText = [n \in Nodes |-> IF n = 1 THEN t
                                     ELSE IF n = 2 THEN LatinText
                                     ELSE <<>>]
    /\ attached = [n \in Nodes |-> TRUE]
    /\ dir = [n \in Nodes |-> ""]
    /\ style = [n \in Nodes |-> NoStyle]
    /\ rtlApplied = {}
    /\ arabicRatioAttr = [n \in Nodes |-> NoRatio]
    /\ processedElements = {}
    /\ textCache = [n \in Nodes |-> NoText]
    /\ isEnabled = TRUE
    /\ isProcessing = FALSE
    /\ debounceTimer = NoTimer
    /\ timeouts = {}
    /\ observer = FALSE
    /\ domReady = FALSE
    /\ rafQueue = <<>>
    /\ domOps = 0
    /\ sliceTime = 0
    /\ phase = "start"
    /\ dropped = {}
    /\ burst = {}
    /\ lastRatio = [n \in Nodes |-> NoCall]
    /\ sampleRatio = NoCall
    /\ child = NoChild
    /\ childRaf = <<>>
    /\ frameStyled = FALSE

\* a document without iframes
NoFrames == iframes = 0 /\ frameState = "none"

InitEngine == InitDocument(Layouts) /\ sample = <<>> /\ NoFrames

\* stand-alone use: no chrome object, initializeRTLCorrector() runs at once
Init ==
    /\ InitEngine
    /\ failing = NoFailure
    /\ rtlCorrector = TRUE
    /\ storage = [muhaThinEnabled |-> "undefined", arabicRTLEnabled |-> "undefined"]
    /\ syncPending = FALSE
    /\ changeEvents = <<>>
    /\ inbox = <<>>
    /\ reply = NoReply

(***************************************************************************)
(* Engine operations.                                                      *)
(***************************************************************************)
\* handleDOMContentLoaded(): initial scan, then the observer is set up
\* handleIframes(): new ArabicRTLCorrector({...config, enableIframeHandling:
\* false}) for the iframe; the constructor of the child runs init(), whose
\* handleDOMContentLoaded() scans `document` and observes document.body,
\* both of the document the script runs in; then the load listener is added
handleIframes ==
    IF iframes = 0 THEN UNCHANGED <<child, childRaf>>
    ELSE LET found == getTargetElements(Body, {}, [n \in Nodes |-> NoText])
         IN  /\ child' = [created |-> TRUE, enableIframeHandling |-> FALSE,
                          isEnabled |-> TRUE,
                          isProcessing |-> found.elements # <<>>,
                          processed |-> {}, cache |-> found.cache,
                          observer |-> TRUE, frameProcessed |-> FALSE]
             /\ childRaf' = IF found.elements = <<>> THEN childRaf
                            ELSE Append(childRaf, [doc |-> "parent",
                                                   elements |-> found.elements,
                                                   currentIndex |-> 1])

handleDOMContentLoaded ==
    /\ domReady' = TRUE
    /\ scanDOM(isEnabled)
    /\ observer' = TRUE
    /\ handleIframes

\* the DOMContentLoaded event, or init() when the document is already loaded
HandleDOMContentLoaded ==
    /\ rtlCorrector
    /\ ~domReady
    /\ BelowBatchBound
    /\ handleDOMContentLoaded
    /\ UNCHANGED <<domFixed, frameDoc, clock, outside, domTree, domStyle, processedElements, isEnabled,
                   timer, domOps, history>>

\* a call of scanDOM() and what it leaves alone
scanDOMCall ==
    /\ BelowBatchBound
    /\ scanDOM(isEnabled)
    /\ UNCHANGED <<domFixed, embedded, clock, calls, domTree, domStyle, processedElements, isEnabled,
                   timer, observer, domReady, domOps, history>>

\* scanDOM() called from outside the engine
ScanDOM == scanDOMCall /\ UNCHANGED script

\* enable()
enable ==
    /\ BelowBatchBound
    /\ isEnabled' = TRUE
    /\ scanDOM(TRUE)
    /\ phase' = IF phase = "disabled" THEN "reenabled" ELSE phase
    /\ UNCHANGED <<domFixed, embedded, clock, calls, domTree, domStyle, processedElements,
                   timer, observer, domReady, domOps, dropped, burst>>

\* enable() called from outside the engine
Enable == enable /\ UNCHANGED script

\* a variant that forgets textCache.delete(element)
removeAllRTLStyles_KeepCache ==
    LET rtlElements == {n \in rtlApplied : isConnected(n)}
    IN  /\ style' = [n \in Nodes |-> IF n \in rtlElements THEN NoStyle ELSE style[n]]
        /\ rtlApplied' = rtlApplied \ rtlElements
        /\ arabicRatioAttr' = [n \in Nodes |-> IF n \in rtlElements THEN NoRatio
                                               ELSE arabicRatioAttr[n]]
        /\ processedElements' = processedElements \ rtlElements
        /\ UNCHANGED textCache

\* removeAllRTLStyles: document.querySelectorAll('[data-rtl-applied="true"]')
removeAllRTLStyles ==
    LET rtlElements == {n \in rtlApplied : isConnected(n)}
    IN  /\ style' = [n \in Nodes |-> IF n \in rtlElements THEN NoStyle ELSE style[n]]
        /\ rtlApplied' = rtlApplied \ rtlElements
        /\ arabicRatioAttr' = [n \in Nodes |-> IF n \in rtlElements THEN NoRatio
                                               ELSE arabicRatioAttr[n]]
        /\ processedElements' = processedElements \ rtlElements
        /\ textCache' = [n \in Nodes |-> IF n \in rtlElements THEN NoText
                                         ELSE textCache[n]]

\* disable()
disable ==
    /\ isEnabled' = FALSE
    /\ isProcessing' = FALSE
    /\ timeouts' = clearTimeout(timeouts, debounceTimer)
    /\ removeAllRTLStyles
    /\ phase' = "disabled"
    /\ burst' = {}
    /\ UNCHANGED <<domFixed, embedded, clock, calls, domTree, debounceTimer, observer, domReady, rafQueue,
                   domOps, dropped>>

\* disable() called from outside the engine
Disable == disable /\ UNCHANGED script

\* the debounce delay passes without a further setTimeout
DelayElapses ==
    /\ \E t \in timeouts : ~t.elapsed
    /\ timeouts' = {[t EXCEPT !.elapsed = TRUE] : t \in timeouts}
    /\ UNCHANGED <<domFixed, embedded, clock, outside, domTree, domStyle, processedElements, textCache,
                   isEnabled, isProcessing, debounceTimer, observer, domReady,
                   rafQueue, domOps, history>>

\* processMutations(mutations)
processMutations(mutations) ==
    LET m == MutationFold([processed |-> processedElements, cache |-> textCache,
                           elements |-> <<>>], mutations)
    IN  /\ processedElements' = m.processed
        /\ textCache' = m.cache
        /\ processElementsBatch(m.elements)

\* a timeout whose delay has elapsed runs its callback
TimerFire ==
    /\ BelowBatchBound
    /\ \E t \in timeouts :
          /\ t.elapsed
          /\ timeouts' = timeouts \ {t}
          /\ processMutations(t.mutations)
    /\ burst' = {}
    /\ UNCHANGED <<domFixed, embedded, clock, outside, domTree, domStyle, isEnabled, debounceTimer, observer,
                   domReady, domOps, phase, dropped>>

\* a variant in which currentIndex passes over one more element than the
\* loop has processed
QueueAfter_SkipOne(count) ==
    LET batch == Head(rafQueue)
        next == batch.currentIndex + count + 1
    IN  IF next <= Len(batch.elements)
        THEN Append(Tail(rafQueue), [batch EXCEPT !.currentIndex = next])
        ELSE Tail(rafQueue)

\* the queue of frame callbacks after processChunk has advanced the batch at
\* its head by count elements: the batch requests a further frame or ends
QueueAfter(count) ==
    LET batch == Head(rafQueue)
        next == batch.currentIndex + count
    IN  IF next <= Len(batch.elements)
        THEN Append(Tail(rafQueue), [batch EXCEPT !.currentIndex = next])
        ELSE Tail(rafQueue)

\* a variant of the observer options that also reports the style attribute
attributeFilter_WithStyle == {"value", "placeholder", "contenteditable", "style"}

\* observer.observe(document.body, {..., attributeFilter: [...]})
attributeFilter == {"value", "placeholder", "contenteditable"}

\* the attributes applyRTLStyles writes: Object.assign(element.style, ...)
\* changes the style attribute, setAttribute the two data attributes
OwnWrites == {"style", "data-rtl-applied", "data-arabic-ratio"}

\* an attributes record of node n
AttributeRecord(n) == [type |-> "attributes", added |-> {}, target |-> n]

\* the records the observer queues for the writes that lead from the
\* current DOM to the DOM of st: one per written node of the document, if
\* a written attribute passes the filter
OwnWriteRecords(st) ==
    LET written == SelectSeq(DocOrder, LAMBDA n :
                       /\ isConnected(n)
                       /\ \/ st.style[n] # style[n]
                          \/ (n \in st.applied) # (n \in rtlApplied)
                          \/ st.ratio[n] # arabicRatioAttr[n])
    IN  IF OwnWrites \cap attributeFilter = {} THEN <<>>
        ELSE [i \in 1..Len(written) |-> AttributeRecord(written[i])]

\* the observer delivers the records of the slice's own writes after the
\* frame callback has returned, when the in-flight flag is processing
NotifyOwnWrites(records, processing) ==
    IF ~observer \/ records = <<>> \/ ~isEnabled \/ processing
    THEN UNCHANGED <<timer, burst>>
    ELSE LET cleared == clearTimeout(timeouts, debounceTimer)
         IN  /\ debounceTimer' = FreshTimerId(cleared)
             /\ timeouts' = setTimeout(cleared, records)
             /\ burst' = (IF timeouts = {} THEN {} ELSE burst)
                              \cup Affected(records)

\* a variant of processChunk that never resets isProcessing
processChunk_KeepFlag(count) ==
    LET batch == Head(rafQueue)
        next == batch.currentIndex + count
        st == ProcessRange(EngineState, batch.elements, batch.currentIndex, next - 1)
    IN  /\ textCache' = st.cache
        /\ dropped' = dropped \ {batch.elements[i] :
                          i \in {j \in batch.currentIndex..(next - 1) :
                                   isConnected(batch.elements[j])}}
        /\ processedElements' = st.processed
        /\ style' = st.style
        /\ rtlApplied' = st.applied
        /\ arabicRatioAttr' = st.ratio
        /\ rafQueue' = QueueAfter(count)
        /\ UNCHANGED isProcessing
        /\ NotifyOwnWrites(OwnWriteRecords(st), isProcessing)
        /\ UNCHANGED <<domFixed, embedded, outside, domTree, isEnabled, observer,
                       domReady, domOps, phase>>

\* processChunk of the batch at the head of the queue when its while loop
\* runs count times, without its effect on the clock
processChunk(count) ==
    LET batch == Head(rafQueue)
        next == batch.currentIndex + count
        st == ProcessRange(EngineState, batch.elements, batch.currentIndex, next - 1)
    IN  /\ textCache' = st.cache
        /\ dropped' = dropped \ {batch.elements[i] :
                          i \in {j \in batch.currentIndex..(next - 1) :
                                   isConnected(batch.elements[j])}}
        /\ processedElements' = st.processed
        /\ style' = st.style
        /\ rtlApplied' = st.applied
        /\ arabicRatioAttr' = st.ratio
        /\ rafQueue' = QueueAfter(count)
        /\ isProcessing' = IF next <= Len(batch.elements) THEN isProcessing
                           ELSE FALSE
        /\ NotifyOwnWrites(OwnWriteRecords(st),
                           next <= Len(batch.elements) /\ isProcessing)
        /\ UNCHANGED <<domFixed, embedded, outside, domTree, isEnabled, observer,
                       domReady, domOps, phase>>

\* the elements the batch at the head of the queue has left
Remaining == Len(Head(rafQueue).elements) - Head(rafQueue).currentIndex + 1

\* a frame callback runs processChunk; the time budget lets it process
\* count >= 1 elements (the clock is not followed)
FrameCallback ==
    /\ rafQueue # <<>>
    /\ \E count \in 1..Remaining : processChunk(count)
    /\ UNCHANGED clock

\* the while loop of processChunk under a clock: costs[i] is the time the
\* i-th remaining element takes; k elements are done after elapsed ms
RECURSIVE ChunkLoop(_, _, _)
ChunkLoop(costs, k, elapsed) ==
    IF k < Len(costs) /\ elapsed < maxProcessingTime
    THEN ChunkLoop(costs, k + 1, elapsed + costs[k + 1])
    ELSE [count |-> k, elapsed |-> elapsed]

\* the time one element may take
Costs == {0, 10, 16}

\* a frame callback under the clock
ClockedFrameCallback ==
    /\ rafQueue # <<>>
    /\ \E costs \in [1..Remaining -> Costs] :
          LET chunk == ChunkLoop(costs, 0, 0)
          IN  /\ processChunk(chunk.count)
              /\ sliceTime' = chunk.elapsed

(***************************************************************************)
(* The page changes the tree; the observer reports it as a microtask.      *)
(* Changes made before handleDOMContentLoaded are part of the initial      *)
(* document.                                                               *)
(***************************************************************************)
ChangeText(n, t) ==
    /\ domOps < MaxDomOps
    /\ domReady
    /\ t # ownText[n]
    /\ domOps' = domOps + 1
    /\ ownText' = [ownText EXCEPT ![n] = t]
    /\ Notify(isConnected(n), <<TextRecord(n)>>)
    /\ UNCHANGED <<domFixed, embedded, clock, outside, attached, dir, domStyle, processedElements,
                   textCache, isEnabled, isProcessing, observer, domReady, rafQueue>>
    /\ phase' = IF phase = "reenabled" THEN "start" ELSE phase

RemoveNode(n) ==
    /\ domOps < MaxDomOps
    /\ domReady
    /\ attached[n]
    /\ domOps' = domOps + 1
    /\ attached' = [attached EXCEPT ![n] = FALSE]
    /\ Notify(isConnected(n), <<RemovedRecord(n)>>)
    /\ UNCHANGED <<domFixed, embedded, clock, outside, ownText, dir, domStyle, processedElements,
                   textCache, isEnabled, isProcessing, observer, domReady, rafQueue>>
    /\ phase' = IF phase = "reenabled" THEN "start" ELSE phase

InsertNode(n) ==
    /\ domOps < MaxDomOps
    /\ domReady
    /\ ~attached[n]
    /\ domOps' = domOps + 1
    /\ attached' = [attached EXCEPT ![n] = TRUE]
    /\ Notify(isConnected(Parent(n)), <<AddedRecord(n)>>)
    /\ UNCHANGED <<domFixed, embedded, clock, outside, ownText, dir, domStyle, processedElements,
                   textCache, isEnabled, isProcessing, observer, domReady, rafQueue>>
    /\ phase' = IF phase = "reenabled" THEN "start" ELSE phase

\* the dir attribute is not in the observer's attributeFilter
SetDir(n, d) ==
    /\ domOps < MaxDomOps
    /\ domReady
    /\ d # dir[n]
    /\ (d = "" \/ dir[n] = "")
    /\ domOps' = domOps + 1
    /\ dir' = [dir EXCEPT ![n] = d]
    /\ UNCHANGED <<domFixed, embedded, clock, outside, ownText, attached, domStyle, processedElements,
                   textCache, isEnabled, isProcessing, timer, observer,
                   domReady, rafQueue, dropped, burst>>
    /\ phase' = IF phase = "reenabled" THEN "start" ELSE phase

Next ==
    \/ HandleDOMContentLoaded
    \/ ScanDOM
    \/ Enable
    \/ Disable
    \/ DelayElapses
    \/ TimerFire
    \/ FrameCallback
    \/ \E n \in Nodes : \E t \in Texts[n] : ChangeText(n, t)
    \/ \E n \in Nodes : RemoveNode(n)
    \/ \E n \in Nodes : InsertNode(n)
    \/ \E n \in DirNodes, d \in DirValues : SetDir(n, d)

Spec == Init /\ [][Next]_vars

(***************************************************************************)
(* The content script: rtlCorrector, the storage flag and the commands.    *)
(***************************************************************************)
\* the fields and the DOM state the engine's methods work on
engine == <<domFixed, embedded, clock, calls, domTree, domStyle, processedElements,
            textCache, isEnabled, isProcessing, timer, observer, domReady,
            rafQueue, domOps, history>>

\* a key of chrome.storage.sync holds true, false or nothing
StoredValues == {"undefined", "true", "false"}

\* the content script has run: the onChanged listener is registered and
\* the callback of storage.sync.get is pending
InitScript ==
    /\ InitEngine
    /\ failing = NoFailure
    /\ rtlCorrector = FALSE
    /\ storage \in [muhaThinEnabled : StoredValues, arabicRTLEnabled : StoredValues]
    /\ syncPending = TRUE
    /\ changeEvents = <<>>
    /\ inbox = <<>>
    /\ reply = NoReply

\* element.tagName.toLowerCase()
tagToLowerCase(t) ==
    CASE t = "P" -> "p" [] t = "LI" -> "li" [] t = "DIV" -> "div"
      [] t = "H2" -> "h2" [] t = "TD" -> "td" [] OTHER -> t

\* the sum of the data-arabic-ratio attributes of a set of nodes, in
\* hundredths (parseFloat(...) || 0)
RECURSIVE TotalRatio(_)
TotalRatio(elems) ==
    IF elems = {} THEN 0
    ELSE LET n == CHOOSE e \in elems : TRUE
         IN  (IF arabicRatioAttr[n] = NoRatio THEN 0 ELSE arabicRatioAttr[n])
             + TotalRatio(elems \ {n})

\* a variant that counts every node carrying the marker, in the tree or not
getStats_Detached ==
    LET rtlElements == rtlApplied
        tags == {tagToLowerCase(tagName[n]) : n \in rtlElements}
        count == Cardinality(rtlElements)
    IN  [totalProcessed |-> count,
         averageArabicRatio |->
             IF count > 0 THEN (2 * TotalRatio(rtlElements) + count) \div (2 * count)
             ELSE 0,
         elementTypes |->
             [t \in tags |->
                 Cardinality({n \in rtlElements : tagToLowerCase(tagName[n]) = t})]]

\* getStats(): computed from document.querySelectorAll('[data-rtl-applied="true"]');
\* averageArabicRatio in hundredths
getStats ==
    LET rtlElements == {n \in rtlApplied : isConnected(n)}
        tags == {tagToLowerCase(tagName[n]) : n \in rtlElements}
        count == Cardinality(rtlElements)
    IN  [totalProcessed |-> count,
         averageArabicRatio |->
             IF count > 0 THEN (2 * TotalRatio(rtlElements) + count) \div (2 * count)
             ELSE 0,
         elementTypes |->
             [t \in tags |->
                 Cardinality({n \in rtlElements : tagToLowerCase(tagName[n]) = t})]]

\* initializeRTLCorrector() when rtlCorrector is null: the constructor
\* calls init(), which runs handleDOMContentLoaded() at once unless the
\* document is still loading
initializeRTLCorrector(loading) ==
    /\ rtlCorrector' = TRUE
    /\ IF loading
       THEN UNCHANGED <<domReady, observer, textCache, isProcessing, rafQueue,
                        child, childRaf>>
       ELSE handleDOMContentLoaded
    /\ UNCHANGED <<domFixed, frameDoc, clock, calls, domTree, domStyle, processedElements,
                   isEnabled, timer, domOps, history>>

\* if (!rtlCorrector) initializeRTLCorrector(); else rtlCorrector.enable();
turnOn ==
    IF ~rtlCorrector THEN \E loading \in BOOLEAN : initializeRTLCorrector(loading)
    ELSE enable /\ UNCHANGED rtlCorrector

\* if (rtlCorrector) rtlCorrector.disable();
turnOff ==
    IF rtlCorrector THEN disable /\ UNCHANGED rtlCorrector
    ELSE UNCHANGED <<engine, rtlCorrector>>

\* the callback of chrome.storage.sync.get(["muhaThinEnabled"], ...)
SyncCallback ==
    /\ syncPending
    /\ syncPending' = FALSE
    /\ IF storage.muhaThinEnabled # "false" THEN turnOn ELSE turnOff
    /\ UNCHANGED <<storage, changeEvents, inbox, reply>>

\* the chrome.storage.onChanged listener of the content script
OnStorageChanged ==
    /\ changeEvents # <<>>
    /\ changeEvents' = Tail(changeEvents)
    /\ LET changes == Head(changeEvents)
       IN  IF changes.key = "muhaThinEnabled"
           THEN IF changes.newValue = "true" THEN turnOn ELSE turnOff
           ELSE UNCHANGED <<engine, rtlCorrector>>
    /\ UNCHANGED <<storage, syncPending, inbox, reply>>

\* chrome.storage.sync.set({key: value}) and the change event it raises
storageSet(key, value) ==
    /\ Len(changeEvents) < MaxEvents
    /\ storage' = [storage EXCEPT ![key] = value]
    /\ changeEvents' = Append(changeEvents, [key |-> key, newValue |-> value])

\* popup.js toggleExtension: newState = !state.isEnabled, where
\* state.isEnabled follows arabicRTLEnabled !== false
PopupToggle ==
    /\ storageSet("arabicRTLEnabled",
                  IF storage.arabicRTLEnabled # "false" THEN "false" ELSE "true")
    /\ UNCHANGED <<engine, rtlCorrector, syncPending, inbox, reply>>

\* the inline script of the popup page
PopupMigrate ==
    /\ storage.muhaThinEnabled # "undefined"
    /\ storage.arabicRTLEnabled = "undefined"
    /\ storageSet("arabicRTLEnabled", storage.muhaThinEnabled)
    /\ UNCHANGED <<engine, rtlCorrector, syncPending, inbox, reply>>

NextSync ==
    \/ SyncCallback
    \/ OnStorageChanged
    \/ PopupToggle
    \/ PopupMigrate
    \/ HandleDOMContentLoaded
    \/ FrameCallback

SyncSpec == InitScript /\ [][NextSync]_vars

\* the messages a sender may pass to chrome.tabs.sendMessage
NullMessage == [isNull |-> TRUE, action |-> ""]
Messages ==
    {[isNull |-> FALSE, action |-> a] :
        a \in {"enable", "disable", "getStats", "rescan", "bogus"}}
    \cup {NullMessage}

SendMessage(message) ==
    /\ Len(inbox) < MaxInbox
    /\ inbox' = Append(inbox, message)
    /\ UNCHANGED <<engine, rtlCorrector, storage, syncPending, changeEvents, reply>>

\* a variant of the catch clause that lets the error go
catchError_Rethrow(error) == reply' = Uncaught

\* catch (error) { sendResponse({ success: false, error: error.message }) }
catchError(error) == reply' = Failure(error)

\* a variant of the rescan test without rtlCorrector.isEnabled
rescanAllowed_IgnoreEnabled == rtlCorrector

\* rtlCorrector && rtlCorrector.isEnabled
rescanAllowed == rtlCorrector /\ isEnabled

\* the chrome.runtime.onMessage listener
OnMessage ==
    /\ inbox # <<>>
    /\ inbox' = Tail(inbox)
    /\ LET message == Head(inbox)
       IN  IF message.isNull
           THEN \* message.action throws a TypeError inside the try block
                /\ catchError("TypeError")
                /\ UNCHANGED <<engine, rtlCorrector>>
           ELSE CASE message.action = "enable" ->
                       /\ turnOn
                       /\ reply' = Success(getStats)
                  [] message.action = "disable" ->
                       /\ turnOff
                       /\ reply' = Success(NoStats)
                  [] message.action = "getStats" ->
                       /\ reply' = Success(IF rtlCorrector THEN getStats
                                           ELSE [totalProcessed |-> 0])
                       /\ UNCHANGED <<engine, rtlCorrector>>
                  [] message.action = "rescan" ->
                       IF rescanAllowed
                       THEN /\ scanDOMCall
                            /\ reply' = Success(getStats)
                            /\ UNCHANGED rtlCorrector
                       ELSE /\ reply' = Failure("RTL corrector not initialized or disabled")
                            /\ UNCHANGED <<engine, rtlCorrector>>
                  [] OTHER ->
                       /\ reply' = Failure("Unknown action")
                       /\ UNCHANGED <<engine, rtlCorrector>>
    /\ UNCHANGED <<storage, syncPending, changeEvents>>

NextCommand ==
    \/ SyncCallback
    \/ \E message \in Messages : SendMessage(message)
    \/ OnMessage
    \/ HandleDOMContentLoaded
    \/ FrameCallback

\* the popup has stored nothing under its own key
InitCommand == InitScript /\ storage.arabicRTLEnabled = "undefined"

CommandSpec == InitCommand /\ [][NextCommand]_vars

\* the ratios of texts of up to MaxDen letters with at least one Arabic letter
Ratios == {r \in [num : 1..MaxDen, den : 1..MaxDen] : r.num <= r.den}

\* the node applyRTLStyles is called on
ApplyNodes == {1}

\* applyRTLStyles(element, arabicRatio) called on its own
ApplyRTLStyles(n, r) ==
    LET st == applyRTLStyles(EngineState, n, r)
    IN  /\ style' = st.style
        /\ rtlApplied' = st.applied
        /\ arabicRatioAttr' = st.ratio
        /\ lastRatio' = [lastRatio EXCEPT ![n] = r]
        /\ UNCHANGED <<domFixed, embedded, clock, script, classifier, domTree,
                       processedElements, textCache, isEnabled, isProcessing,
                       timer, observer, domReady, rafQueue, domOps, phase,
                       dropped, burst>>

NextApply == \E n \in ApplyNodes, r \in Ratios : ApplyRTLStyles(n, r)

ApplySpec == Init /\ [][NextApply]_vars

\* stand-alone engine over a document on one node of which a call throws
InitFault ==
    /\ InitEngine
    /\ failing \in Failures
    /\ rtlCorrector = TRUE
    /\ storage = [muhaThinEnabled |-> "undefined", arabicRTLEnabled |-> "undefined"]
    /\ syncPending = FALSE
    /\ changeEvents = <<>>
    /\ inbox = <<>>
    /\ reply = NoReply

NextFault ==
    \/ HandleDOMContentLoaded
    \/ ScanDOM
    \/ Enable
    \/ Disable
    \/ FrameCallback

FaultSpec == InitFault /\ [][NextFault]_vars

\* the scheduler alone, with the clock followed and every requested frame
\* eventually delivered
NextSlice ==
    \/ HandleDOMContentLoaded
    \/ ScanDOM
    \/ Enable
    \/ Disable
    \/ ClockedFrameCallback

\* the host runs the frame callback at the head of its queue
FrameDelivered ==
    /\ rafQueue # <<>>
    /\ \E count \in 1..Remaining : rafQueue' = QueueAfter(count)

SliceSpec == Init /\ [][NextSlice]_vars /\ WF_rafQueue(FrameDelivered)

\* destroy(): disable(), the observer is disconnected, the DOMContentLoaded
\* listener removed, the timer cleared again, processed set and cache
\* replaced by empty ones
destroy ==
    LET rtlElements == {n \in rtlApplied : isConnected(n)}
    IN  /\ isEnabled' = FALSE
        /\ isProcessing' = FALSE
        /\ timeouts' = clearTimeout(timeouts, debounceTimer)
        /\ style' = [n \in Nodes |-> IF n \in rtlElements THEN NoStyle ELSE style[n]]
        /\ rtlApplied' = rtlApplied \ rtlElements
        /\ arabicRatioAttr' = [n \in Nodes |-> IF n \in rtlElements THEN NoRatio
                                               ELSE arabicRatioAttr[n]]
        /\ observer' = FALSE
        /\ processedElements' = {}
        /\ textCache' = [n \in Nodes |-> NoText]
        /\ phase' = "destroyed"
        /\ burst' = {}
        /\ UNCHANGED <<domFixed, embedded, clock, calls, domTree, debounceTimer, domReady,
                       rafQueue, domOps, dropped>>

\* destroy() called from outside the engine, once
Destroy == phase # "destroyed" /\ destroy /\ UNCHANGED script

\* the DOMContentLoaded event reaches the listener unless destroy() removed it
DOMContentLoadedEvent == phase # "destroyed" /\ HandleDOMContentLoaded

\* the engine until and after destroy(): the page keeps changing text, the
\* host keeps running timers and frames
NextDestroy ==
    \/ DOMContentLoadedEvent
    \/ Destroy
    \/ DelayElapses
    \/ TimerFire
    \/ FrameCallback
    \/ \E n \in Nodes : \E t \in Texts[n] : ChangeText(n, t)

DestroySpec == Init /\ [][NextDestroy]_vars

\* getStats() called from outside the engine; reply keeps what it returned
GetStats ==
    /\ rtlCorrector
    /\ reply' = Success(getStats)
    /\ UNCHANGED <<engine, rtlCorrector, storage, syncPending, changeEvents, inbox>>

\* the nodes the page removes and the nodes whose text it changes while
\* stats are asked for
StatsNodes == {1, 2}

\* the engine styling a changing tree while stats are read
NextStats ==
    \/ HandleDOMContentLoaded
    \/ DelayElapses
    \/ TimerFire
    \/ FrameCallback
    \/ GetStats
    \/ \E n \in StatsNodes : \E t \in Texts[n] : ChangeText(n, t)
    \/ \E n \in StatsNodes : RemoveNode(n)

StatsSpec == Init /\ [][NextStats]_vars

\* documents with a button, table cells and a generic container
StyleLayouts ==
    { [tags |-> <<"BUTTON", "TD", "DIV">>, skip |-> {}, hidden |-> {}],
      [tags |-> <<"TH", "P", "DIV">>, skip |-> {}, hidden |-> {}] }

InitStyle ==
    /\ InitDocument(StyleLayouts)
    /\ sample = <<>>
    /\ NoFrames
    /\ failing = NoFailure
    /\ rtlCorrector = TRUE
    /\ storage = [muhaThinEnabled |-> "undefined", arabicRTLEnabled |-> "undefined"]
    /\ syncPending = FALSE
    /\ changeEvents = <<>>
    /\ inbox = <<>>
    /\ reply = NoReply

\* the page writes Arabic text into any node, the container included
NextStyle ==
    \/ HandleDOMContentLoaded
    \/ DelayElapses
    \/ TimerFire
    \/ FrameCallback
    \/ \E n \in Nodes : ChangeText(n, ArabicText)

StyleSpec == InitStyle /\ [][NextStyle]_vars

\* the characters of a text handed to the classifier
Chars == {Arabic, Latin, Digit, Space, UrlPrefix}

\* every text of up to MaxTextLen characters
SampleTexts == UNION {[1..k -> Chars] : k \in 0..MaxTextLen}

\* calculateArabicRatio(sample) called on its own
CalculateArabicRatio ==
    /\ sampleRatio' = calculateArabicRatio(sample)
    /\ UNCHANGED <<domFixed, embedded, clock, script, lastRatio, sample, domTree, domStyle,
                   processedElements, textCache, isEnabled, isProcessing,
                   timer, observer, domReady, rafQueue, domOps, history>>

\* a stand-alone engine and a text to classify
InitClassify ==
    /\ InitDocument(Layouts)
    /\ NoFrames
    /\ sample \in SampleTexts
    /\ failing = NoFailure
    /\ rtlCorrector = TRUE
    /\ storage = [muhaThinEnabled |-> "undefined", arabicRTLEnabled |-> "undefined"]
    /\ syncPending = FALSE
    /\ changeEvents = <<>>
    /\ inbox = <<>>
    /\ reply = NoReply

NextClassify == CalculateArabicRatio

ClassifySpec == InitClassify /\ [][NextClassify]_vars

\* the load event of the iframe: the listener added by handleIframes calls
\* iframeCorrector.scanDOM(iframe.contentDocument)
FrameLoad ==
    /\ iframes = 1
    /\ frameState = "loading"
    /\ frameState' = "loaded"
    /\ IF ~child.created \/ ~child.isEnabled \/ child.isProcessing
       THEN UNCHANGED <<child, childRaf>>
       ELSE LET elements == IF child.frameProcessed THEN <<>> ELSE <<FrameNode>>
            IN  IF elements = <<>> THEN UNCHANGED <<child, childRaf>>
                ELSE /\ child' = [child EXCEPT !.isProcessing = TRUE]
                     /\ childRaf' = Append(childRaf, [doc |-> "frame",
                                                      elements |-> elements,
                                                      currentIndex |-> 1])
    /\ UNCHANGED <<domFixed, frameStyled, clock, outside, domTree, domStyle,
                   processedElements, textCache, isEnabled, isProcessing,
                   timer, observer, domReady, rafQueue, domOps, history>>

\* a frame callback of the child runs processChunk on its batch: the
\* paragraph of the embedded document, or count nodes of the document the
\* child scanned when it was constructed
ChildFrameCallback ==
    /\ childRaf # <<>>
    /\ LET batch == Head(childRaf)
       IN  IF batch.doc = "frame"
           THEN /\ frameStyled' = TRUE
                /\ child' = [child EXCEPT !.frameProcessed = TRUE,
                                          !.isProcessing = FALSE]
                /\ childRaf' = Tail(childRaf)
                /\ UNCHANGED domStyle
           ELSE \E count \in 1..(Len(batch.elements) - batch.currentIndex + 1) :
                  LET next == batch.currentIndex + count
                      st == ProcessRange(
                                [cache |-> child.cache,
                                 processed |-> child.processed,
                                 style |-> style, applied |-> rtlApplied,
                                 ratio |-> arabicRatioAttr],
                                batch.elements, batch.currentIndex, next - 1)
                  IN  /\ style' = st.style
                      /\ rtlApplied' = st.applied
                      /\ arabicRatioAttr' = st.ratio
                      /\ child' = [child EXCEPT
                                     !.cache = st.cache,
                                     !.processed = st.processed,
                                     !.isProcessing =
                                         IF next <= Len(batch.elements) THEN @
                                         ELSE FALSE]
                      /\ childRaf' =
                            IF next <= Len(batch.elements)
                            THEN Append(Tail(childRaf),
                                        [batch EXCEPT !.currentIndex = next])
                            ELSE Tail(childRaf)
                      /\ UNCHANGED frameStyled
    /\ UNCHANGED <<domFixed, frameState, clock, outside, domTree,
                   processedElements, textCache, isEnabled, isProcessing,
                   timer, observer, domReady, rafQueue, domOps, history>>

\* a stand-alone engine over a document with one same-origin iframe whose
\* document has finished loading or not
InitIframe ==
    /\ InitDocument(Layouts)
    /\ sample = <<>>
    /\ iframes = 1
    /\ frameState \in {"loading", "loaded"}
    /\ failing = NoFailure
    /\ rtlCorrector = TRUE
    /\ storage = [muhaThinEnabled |-> "undefined", arabicRTLEnabled |-> "undefined"]
    /\ syncPending = FALSE
    /\ changeEvents = <<>>
    /\ inbox = <<>>
    /\ reply = NoReply

NextIframe ==
    \/ HandleDOMContentLoaded
    \/ FrameLoad
    \/ FrameCallback
    \/ ChildFrameCallback
    \/ Disable
    \/ Enable

IframeSpec == InitIframe /\ [][NextIframe]_vars

\* the scheduler fed by the initial scan and by mutations while the page
\* changes text, removes and inserts nodes
NextQueue ==
    \/ HandleDOMContentLoaded
    \/ DelayElapses
    \/ TimerFire
    \/ FrameCallback
    \/ \E n \in Nodes : \E t \in Texts[n] : ChangeText(n, t)
    \/ \E n \in Nodes : RemoveNode(n)
    \/ \E n \in Nodes : InsertNode(n)

QueueSpec == Init /\ [][NextQueue]_vars

\* the instance is used until destroy() is called
LiveEnable == phase # "destroyed" /\ Enable
LiveDisable == phase # "destroyed" /\ Disable

\* every operation that writes or deletes cache entries and processed
\* flags: slices, mutation invalidation, scans, disable() and destroy()
NextCache ==
    \/ DOMContentLoadedEvent
    \/ LiveEnable
    \/ LiveDisable
    \/ Destroy
    \/ DelayElapses
    \/ TimerFire
    \/ FrameCallback
    \/ \E n \in Nodes : \E t \in Texts[n] : ChangeText(n, t)

CacheSpec == Init /\ [][NextCache]_vars

\* the host runs the callback of a timeout whose delay has elapsed
TimerDelivered ==
    /\ BelowBatchBound
    /\ \E t \in timeouts : t.elapsed /\ timeouts' = timeouts \ {t}

\* the engine and a page that changes the tree a bounded number of times;
\* the host lets every delay elapse and runs every timeout callback and
\* every requested frame
QuietSpec ==
    /\ Init
    /\ [][NextQueue]_vars
    /\ WF_timeouts(DelayElapses)
    /\ WF_timeouts(TimerDelivered)
    /\ WF_rafQueue(FrameDelivered)

TypeOK ==
    /\ processedElements \subseteq Nodes
    /\ rtlApplied \subseteq Nodes
    /\ isEnabled \in BOOLEAN
    /\ isProcessing \in BOOLEAN
    /\ Len(rafQueue) <= MaxBatches
    /\ domOps \in 0..MaxDomOps


(***************************************************************************)
(* Properties.                                                             *)
(***************************************************************************)
Unstyled(n) ==
    /\ n \notin rtlApplied
    /\ arabicRatioAttr[n] = NoRatio
    /\ style[n] = NoStyle

HasLtrOverride(n) == dir[n] \in {"ltr", "LTR"}

\* the styling rule applied to the text the node has now
SatisfiesRule(n) ==
    /\ ElementText(n) # <<>>
    /\ JsLength(trim(ElementText(n))) >= MinTextLength
    /\ ShouldApply(n, calculateArabicRatio(ElementText(n)))

\* C1: a node that is unstyled and has dir = ltr (in any letter case) is
\* still unstyled after every step that leaves the override in place: no
\* scan, enable, timer flush or slice gives it styles, the marker or the
\* ratio attribute, whatever its ratio is.
C1_OverrideSupremacy ==
    [][\A n \in Nodes :
          (HasLtrOverride(n) /\ Unstyled(n) /\ dir'[n] \in {"ltr", "LTR"})
          => /\ n \notin rtlApplied'
             /\ arabicRatioAttr'[n] = NoRatio
             /\ style'[n] = NoStyle]_vars

\* C1 witness: a node with dir="LTR" whose text satisfies the styling rule
\* has been processed by a slice and is unstyled.
C1_Witness ==
    \E n \in Nodes :
        /\ dir[n] = "LTR"
        /\ isConnected(n)
        /\ SatisfiesRule(n)
        /\ n \in processedElements
        /\ textCache[n] = ElementText(n)
        /\ Unstyled(n)


\* C2: at most one batch has a slice callback pending: the queue of frame
\* callbacks never holds the callbacks of two batches.
C2_SingleFlight == Len(rafQueue) <= 1

\* C3: while the engine stays disabled no step processes, marks or styles a
\* node: the processed set, the markers, the ratio attributes and the
\* styles only shrink or stay as disable() left them.
C3_DisableAbortsSlicing ==
    [][(~isEnabled /\ ~isEnabled')
       => /\ processedElements' \subseteq processedElements
          /\ rtlApplied' \subseteq rtlApplied
          /\ \A n \in Nodes :
                /\ arabicRatioAttr'[n] \in {arabicRatioAttr[n], NoRatio}
                /\ style'[n] \in {style[n], NoStyle}]_vars

InDocument(n) == isConnected(n)

Eligible(n) == matchesTarget(n) /\ ~matchesSkip(n)

\* the nodes of the document that the styling rule selects now
ExpectedStyled ==
    {n \in Nodes : /\ InDocument(n)
                   /\ Eligible(n)
                   /\ isElementVisible(n)
                   /\ ~HasLtrOverride(n)
                   /\ SatisfiesRule(n)}

\* C5: after disable() and the enable() that follows it, once every batch
\* has drained (and the tree did not change since that enable()), the nodes
\* of the document carrying the marker are exactly the eligible, visible
\* nodes whose current text satisfies the styling rule.
C5_ReenableReproduces ==
    (phase = "reenabled" /\ rafQueue = <<>> /\ ~isProcessing)
    => {n \in rtlApplied : InDocument(n)} = ExpectedStyled

\* a discovery pass runs in this step and returns the sequence found
DiscoveryRuns ==
    /\ ScanDOM \/ Enable \/ HandleDOMContentLoaded
    /\ isEnabled'
    /\ ~isProcessing

Discovered ==
    IF Len(rafQueue') > Len(rafQueue)
    THEN {rafQueue'[Len(rafQueue')].elements[i] :
             i \in 1..Len(rafQueue'[Len(rafQueue')].elements)}
    ELSE {}

\* an accepted text mutation of n waits in the debounce timer
PendingTextMutation(n) ==
    \E t \in timeouts : \E i \in 1..Len(t.mutations) :
        t.mutations[i] = TextRecord(n)

Discoverable(n) == InDocument(n) /\ Eligible(n) /\ isElementVisible(n)

\* C6: when a discovery pass runs while an accepted text mutation of a
\* processed node is still waiting for its debounce delay, the node's
\* processed flag and cache entry have been invalidated and the pass
\* returns the node.
C6_CacheCoherence ==
    [][DiscoveryRuns =>
         \A n \in Nodes :
            (PendingTextMutation(n) /\ Discoverable(n)
             /\ textCache[n] # NoText /\ textCache[n] # ElementText(n))
            => (n \notin processedElements /\ n \in Discovered)]_vars

\* C7: when a discovery pass runs, every discoverable node whose text
\* mutation was dropped (batch executing or engine disabled) and whose text
\* differs from the text it was last processed with is returned.
C7_DroppedMutationRediscovered ==
    [][DiscoveryRuns =>
         \A n \in dropped :
            (Discoverable(n) /\ n \in processedElements
             /\ textCache[n] # NoText /\ textCache[n] # ElementText(n))
            => n \in Discovered]_vars

\* a frame callback ran: the queue changed without growing
FrameStep ==
    /\ rafQueue # <<>>
    /\ rafQueue' # rafQueue
    /\ Len(rafQueue') <= Len(rafQueue)

\* the nodes processElement runs on in a frame-callback step
SliceNodes ==
    LET batch == Head(rafQueue)
        last == IF Len(rafQueue') < Len(rafQueue) THEN Len(batch.elements)
                ELSE rafQueue'[Len(rafQueue')].currentIndex - 1
    IN  {batch.elements[i] : i \in {j \in batch.currentIndex..last :
                                       isConnected(batch.elements[j])}}

\* C8: whenever a slice runs processElement on a node, the node is not in
\* the processed set or its extracted text differs from its cached text.
C8_ReprocessOnlyOnChange ==
    [][FrameStep =>
         \A n \in SliceNodes :
            \/ n \notin processedElements
            \/ textCache[n] # ElementText(n)]_vars

\* C9: no node matching a skip selector is ever processed or styled.
C9_SkipNeverProcessed ==
    \A n \in Nodes : matchesSkip(n) => (n \notin processedElements /\ Unstyled(n))

\* the rule of the threshold boundary for a set of always-check tags
ThresholdRule(n, always) ==
    LET r == calculateArabicRatio(ElementText(n))
    IN  IF tagName[n] \in always THEN r.num > 0
        ELSE 10 * r.num >= 3 * r.den

\* a slice processes n: connected, no ltr override, classified and marked
\* processed; it is styled when the rule holds, and a node that was
\* unstyled before the slice is styled only when the rule holds
ThresholdBoundary(always) ==
    FrameStep =>
         \A n \in SliceNodes :
            (~HasLtrOverride(n) /\ n \in processedElements'
             /\ textCache'[n] = ElementText(n)
             /\ JsLength(trim(ElementText(n))) >= MinTextLength)
            => /\ ThresholdRule(n, always) => n \in rtlApplied'
               /\ (n \in rtlApplied' /\ n \notin rtlApplied)
                      => ThresholdRule(n, always)

\* C10 as claimed: paragraph, every heading, link and span are always-check
C10_ThresholdBoundary_AllHeadings ==
    [][ThresholdBoundary({"P", "H1", "H2", "H3", "H4", "H5", "H6", "A", "SPAN"})]_vars

\* C10 amended: the always-check categories are paragraph, h1, link and
\* span; a processed node of one of them is styled whenever ratio > 0, and
\* a node of any other category, h2..h6 included, is styled iff
\* ratio >= threshold.
C10_ThresholdBoundary ==
    [][ThresholdBoundary({"P", "H1", "A", "SPAN"})]_vars

\* C10 witness: an h2 whose ratio is above 0 and below the threshold has
\* been processed by a slice and is unstyled.
C10_Witness ==
    /\ tagName[1] = "H2"
    /\ ~HasLtrOverride(1)
    /\ 1 \in processedElements
    /\ textCache[1] = ElementText(1)
    /\ ThresholdRule(1, {"H2"})
    /\ ~ThresholdRule(1, {})
    /\ Unstyled(1)

\* the callback of a timeout ran in this step
TimerStep ==
    /\ timeouts' \subseteq timeouts
    /\ timeouts' # timeouts
    /\ isEnabled'

\* C11: when the debounce timer fires while no batch is flagged in flight,
\* the batch handed to the scheduler contains the affected nodes of every
\* mutation batch accepted in the debounce window, and each node whose text
\* changed in the window has lost its processed flag and cache entry.
C11_DebounceAccumulation ==
    [][(TimerStep /\ ~isProcessing) =>
          \A b \in burst :
             /\ b.node \in Discovered
             /\ b.text => /\ b.node \notin processedElements'
                          /\ textCache'[b.node] = NoText]_vars

\* the observer delivers a notification to handleMutations in this step
Delivered ==
    /\ domOps' # domOps
    /\ observer
    /\ \E n \in Nodes :
          \/ ownText'[n] # ownText[n] /\ isConnected(n)
          \/ attached[n] /\ ~attached'[n] /\ isConnected(n)
          \/ ~attached[n] /\ attached'[n] /\ isConnected(Parent(n))

\* C12: at most one timeout is pending; a notification accepted by
\* handleMutations leaves exactly one pending timeout, the one the engine
\* holds, with its full delay ahead; a timeout callback runs only for the
\* timeout set by the last accepted batch and only after its delay has
\* elapsed; while the engine is disabled no timeout is pending.
C12_DebounceQuietPeriod ==
    /\ [](Cardinality(timeouts) <= 1)
    /\ [][(Delivered /\ isEnabled /\ ~isProcessing) =>
             /\ Cardinality(timeouts') = 1
             /\ \A t \in timeouts' : t.id = debounceTimer' /\ ~t.elapsed]_vars
    /\ [][TimerStep =>
             \A t \in timeouts \ timeouts' : t.id = debounceTimer /\ t.elapsed]_vars
    /\ [](~isEnabled => timeouts = {})

\* C12 witness: two batches were accepted in one debounce window, one
\* timeout is pending and its delay has elapsed since the second batch.
C12_Witness ==
    /\ Cardinality(burst) = 2
    /\ Cardinality(timeouts) = 1
    /\ \A t \in timeouts : t.elapsed /\ t.id = debounceTimer

\* C13: a notification delivered while the engine is disabled or while a
\* batch has a slice pending changes neither the debounce timer, the text
\* cache, the processed set nor the work queue.
C13_DroppedNotification ==
    [][(Delivered /\ (~isEnabled \/ rafQueue # <<>>)) =>
          UNCHANGED <<debounceTimer, timeouts, textCache, processedElements,
                      rafQueue, isProcessing>>]_vars

\* C14: the in-flight flag is never set without a slice pending; every
\* slice advances its batch by at least one element or finishes it (so a
\* batch of N elements ends within N slices); and, frames being delivered,
\* an engine that is in flight eventually returns to idle.
C14_BatchTermination ==
    /\ [](isProcessing => rafQueue # <<>>)
    /\ [][FrameStep =>
             \/ Len(rafQueue') < Len(rafQueue)
             \/ rafQueue'[Len(rafQueue')].currentIndex > Head(rafQueue).currentIndex]_vars
    /\ (isProcessing ~> ~isProcessing)

\* C14 witness: the initial batch of two elements has run to its end in
\* slices that each used up the budget, and the engine is idle again.
C14_Witness ==
    /\ domReady
    /\ isEnabled
    /\ ~isProcessing
    /\ rafQueue = <<>>
    /\ {1, 2} \subseteq processedElements
    /\ sliceTime >= maxProcessingTime

\* C15: the clock time one slice consumes never exceeds the budget.
C15_SliceBudget == sliceTime <= maxProcessingTime

\* |a - b| < 0.01 for two ratios
CloseRatios(a, b) ==
    LET d == a.num * b.den - b.num * a.den
    IN  100 * (IF d < 0 THEN -d ELSE d) < a.den * b.den

\* C16: a call of applyRTLStyles with a ratio less than 0.01 away from the
\* ratio of the previous call on the same node writes nothing: styles,
\* marker and ratio attribute stay as the previous call left them.
C16_ApplyIdempotent ==
    [][\A n \in Nodes :
          (/\ lastRatio[n] # NoCall
           /\ lastRatio'[n] # lastRatio[n]
           /\ CloseRatios(lastRatio[n], lastRatio'[n]))
          => /\ style'[n] = style[n]
             /\ (n \in rtlApplied') = (n \in rtlApplied)
             /\ arabicRatioAttr'[n] = arabicRatioAttr[n]]_vars

\* the engine follows the flag: it exists and is enabled
EngineOn == rtlCorrector /\ isEnabled

\* the desired state the storage holds: the value under the current key,
\* or the value under the deprecated key when the current key is unset;
\* an absent flag means enabled
DesiredEnabled ==
    (IF storage.arabicRTLEnabled # "undefined" THEN storage.arabicRTLEnabled
     ELSE storage.muhaThinEnabled) # "false"

\* C17: once the content script has read the storage and every change
\* event has been delivered to its listener, the engine is on exactly when
\* the stored flag asks for it.
C17_SharedEnabledFlag ==
    (~syncPending /\ changeEvents = <<>>) => (EngineOn = DesiredEnabled)

\* the message listener handles the message at the head of the inbox
Handled ==
    /\ inbox # <<>>
    /\ inbox' = Tail(inbox)

\* C18: the reply to rescan is a failure with an error text exactly when
\* the engine is absent or disabled, and then nothing of the engine
\* changes; otherwise the reply is a success carrying stats.
C18_RescanGuard ==
    [][(Handled /\ ~Head(inbox).isNull /\ Head(inbox).action = "rescan") =>
          /\ reply'.kind = "response"
          /\ reply'.success = (rtlCorrector /\ isEnabled)
          /\ ~reply'.success =>
                /\ reply'.error # ""
                /\ UNCHANGED <<engine, rtlCorrector>>
          /\ reply'.success => reply'.stats = getStats]_vars

\* C18 witness: a rescan was refused while the engine existed, disabled.
C18_Witness ==
    /\ rtlCorrector
    /\ ~isEnabled
    /\ reply = Failure("RTL corrector not initialized or disabled")

\* C19: whatever the message and the engine state, the listener answers
\* with a response (it carries success) and throws nothing; a message whose
\* handling fails is answered with success false and an error text.
C19_AlwaysReplies ==
    [][Handled =>
          /\ reply'.kind = "response"
          /\ Head(inbox).isNull => (~reply'.success /\ reply'.error # "")]_vars

\* C19 witness: a message whose handling threw was answered with a failure
\* while a batch was in flight.
C19_Witness ==
    /\ reply = Failure("TypeError")
    /\ rtlCorrector
    /\ isProcessing
    /\ rafQueue # <<>>

\* C20: a slice processes every connected node it reaches even when a call
\* on one of them throws; a node on which the text extraction, the
\* classification or the styling threw is not in the processed set after
\* the slice, and a discovery pass that runs later returns it.
C20_ErrorIsolation ==
    /\ [][FrameStep =>
             \A n \in SliceNodes :
                IF failing[n] = "none"
                THEN JsLength(trim(ElementText(n))) >= MinTextLength
                        => n \in processedElements'
                ELSE n \notin processedElements']_vars
    /\ [][DiscoveryRuns =>
             \A n \in Nodes :
                (failing[n] # "none" /\ Discoverable(n)) => n \in Discovered]_vars

\* C21: when destroy() returns the observer is unsubscribed, no timeout is
\* pending and the cache and the processed set are empty; from then on no
\* step (notification, timer expiry, frame callback) changes the processed
\* set, the cache or the styling, marker or ratio attribute of any node.
C21_DestroyFinal ==
    /\ [][Destroy => /\ ~observer'
                     /\ timeouts' = {}
                     /\ processedElements' = {}
                     /\ textCache' = [n \in Nodes |-> NoText]]_vars
    /\ [][phase = "destroyed" =>
             UNCHANGED <<processedElements, textCache, style, rtlApplied,
                         arabicRatioAttr>>]_vars

\* the sum of the counts of a histogram
RECURSIVE SumCounts(_, _)
SumCounts(f, keys) ==
    IF keys = {} THEN 0
    ELSE LET k == CHOOSE x \in keys : TRUE
         IN  f[k] + SumCounts(f, keys \ {k})

\* C22: a call of getStats() changes no node, cache, processed set, timer,
\* flag or queue; the totalProcessed it returns is the number of nodes of
\* the document that carry the marker at that moment (a styled node that
\* was removed from the tree is not counted), and the counts of its per-tag
\* histogram add up to totalProcessed.
C22_StatsPureRead ==
    [][GetStats =>
          /\ UNCHANGED engine
          /\ reply'.stats.totalProcessed =
                 Cardinality({n \in Nodes : n \in rtlApplied /\ InDocument(n)})
          /\ SumCounts(reply'.stats.elementTypes, DOMAIN reply'.stats.elementTypes)
                 = reply'.stats.totalProcessed]_vars

\* C22 witness: stats were read while one styled node was in the document
\* and another styled node had been removed from it; one node was counted.
C22_Witness ==
    /\ reply.kind = "response"
    /\ reply.stats # NoStats
    /\ reply.stats.totalProcessed = 1
    /\ \E n \in rtlApplied : ~InDocument(n)
    /\ \E n \in rtlApplied : InDocument(n)

\* the alignment the category of a node asks for
ExpectedAlign(n) ==
    IF tagName[n] = "BUTTON" THEN "center"
    ELSE IF tagName[n] \in {"TD", "TH"} THEN "inherit"
    ELSE "right"

\* C23: every node the engine has styled has the alignment of its
\* category: center for a button, inherit for a table cell, right for
\* every other category.
C23_AlignByCategory ==
    \A n \in rtlApplied : style[n].textAlign = ExpectedAlign(n)

\* C26: the engine never sets a right-to-left flow direction on a div; a
\* styled div has received alignment and a bidi hint only.
C26_ContainerNoDirection ==
    \A n \in Nodes :
        tagName[n] = "DIV" =>
            /\ style[n].direction = ""
            /\ n \in rtlApplied =>
                  /\ style[n].textAlign = "right"
                  /\ style[n].unicodeBidi \in {"plaintext", "bidi-override"}

\* C26 witness: a div whose text changed was processed and styled.
C26_Witness ==
    \E n \in rtlApplied :
        /\ tagName[n] = "DIV"
        /\ n \in processedElements
        /\ arabicRatioAttr[n] # NoRatio
        /\ style[n].textAlign = "right"

\* the first whitespace-delimited token of a text
RECURSIVE FirstToken(_)
FirstToken(s) ==
    IF s = <<>> \/ Head(s) = Space THEN <<>>
    ELSE <<Head(s)>> \o FirstToken(Tail(s))

\* the text with digit runs and URLs removed token by token: in the text
\* as written [^\s]+ ends at the next whitespace
RECURSIVE StripTokens(_)
StripTokens(s) ==
    IF s = <<>> THEN <<>>
    ELSE IF Head(s) = Space THEN StripTokens(Tail(s))
    ELSE LET token == FirstToken(s)
         IN  StripLtrPreserve(token)
             \o StripTokens(SubSeq(s, Len(token) + 1, Len(s)))

\* the letters of the text that count: whitespace, digit runs and URL-like
\* tokens removed
CountedLetters(text) == KeepLetters(StripTokens(text))

\* C24: the ratio returned for a text is (Arabic letters) / (letters)
\* counted over its tokens with digit runs and URL-like tokens removed: 0
\* when no letter remains, otherwise equal to that quotient, and always in
\* [0,1].
C24_TokenStripping ==
    sampleRatio # NoCall =>
        LET letters == CountedLetters(sample)
            arabic == Len(SelectSeq(letters, LAMBDA c : c = Arabic))
        IN  /\ sampleRatio.num >= 0
            /\ sampleRatio.num <= sampleRatio.den
            /\ IF letters = <<>> THEN sampleRatio.num = 0
               ELSE sampleRatio.num * Len(letters) = arabic * sampleRatio.den

\* the step in which the child exists and the embedded document has
\* finished loading for the first time
ScanDue ==
    /\ child'.created /\ frameState' = "loaded"
    /\ ~(child.created /\ frameState = "loaded")

\* C25: the child engine is created with iframe delegation disabled, and
\* as soon as the child exists and the embedded document has finished
\* loading (whichever comes last, whatever the child is doing) the child
\* starts a batch over the eligible nodes of the embedded document.
C25_IframeDelegation ==
    /\ [][(~child.created /\ child'.created)
             => ~child'.enableIframeHandling]_vars
    /\ [][ScanDue =>
             /\ Len(childRaf') > Len(childRaf)
             /\ childRaf'[Len(childRaf')].doc = "frame"]_vars

\* a frame callback of the child ran
ChildFrameStep == childRaf # <<>> /\ childRaf' # childRaf /\ child' # child

\* C30: every batch of the child is over nodes of the embedded document,
\* the child does not observe the body of the parent document, no frame
\* callback of the child changes the styling of a node of the parent
\* document, in particular not while the parent engine is disabled.
C30_EngineIsolation ==
    /\ [](\A i \in 1..Len(childRaf) : childRaf[i].doc = "frame")
    /\ [](~child.observer)
    /\ [][ChildFrameStep => UNCHANGED <<style, rtlApplied, arabicRatioAttr>>]_vars

\* C27: a discovery pass (getTargetElements(document) inside scanDOM)
\* changes neither the text cache, the processed set nor any node.
C27_DiscoveryPure ==
    [][DiscoveryRuns =>
          UNCHANGED <<textCache, processedElements, domTree, domStyle>>]_vars

NoDuplicates(seq) ==
    \A i, j \in 1..Len(seq) : seq[i] = seq[j] => i = j

\* what the engine and the DOM hold about node n changes in this step
Touched(n) ==
    \/ (n \in processedElements') # (n \in processedElements)
    \/ textCache'[n] # textCache[n]
    \/ style'[n] # style[n]
    \/ (n \in rtlApplied') # (n \in rtlApplied)
    \/ arabicRatioAttr'[n] # arabicRatioAttr[n]

C29_StylingTracksContent ==
    (isEnabled /\ ~isProcessing /\ rafQueue = <<>> /\ timeouts = {})
    => \A n \in rtlApplied :
          (InDocument(n) /\ n \in processedElements /\ n \notin dropped
           /\ textCache[n] = ElementText(n))
          => SatisfiesRule(n)

\* C31: every node in the processed set has an entry in the text cache; a
\* step that adds a node to the processed set leaves the node's extracted
\* text in the cache, and a step that deletes the cache entry of a node
\* leaves the node outside the processed set.
C31_ProcessedImpliesCached ==
    /\ [](\A n \in processedElements : textCache[n] # NoText)
    /\ [][\A n \in Nodes :
             /\ (n \notin processedElements /\ n \in processedElements')
                   => textCache'[n] = ElementText(n)
             /\ (textCache[n] # NoText /\ textCache'[n] = NoText)
                   => n \notin processedElements']_vars

\* C31 witness: the timer of a text mutation has fired: the node lost its
\* cache entry and its processed flag together and waits in a batch of
\* its own, while the other node of the initial batch is still processed.
C31_Witness ==
    \E n \in {1, 2} :
        /\ tagName[1] = "P"
        /\ phase = "start"
        /\ rafQueue = <<[elements |-> <<n>>, currentIndex |-> 1]>>
        /\ textCache[n] = NoText
        /\ n \notin processedElements
        /\ processedElements # {}

\* idle with no debounce timer pending
Quiet == ~isProcessing /\ rafQueue = <<>> /\ timeouts = {}

\* C32: a frame callback (the only step in which the engine writes style
\* properties, data-rtl-applied and data-arabic-ratio) never sets or
\* replaces the debounce timer; once the engine is idle with no timer
\* pending it stays so until the page changes the tree; and, the page
\* changing the tree only finitely often, the engine ends up idle with no
\* timer pending for good.
C32_Quiescence ==
    /\ [][FrameStep => UNCHANGED <<debounceTimer, timeouts>>]_vars
    /\ [][(domReady /\ Quiet /\ domOps' = domOps) => Quiet']_vars
    /\ <>[]Quiet

\* C32 witness: the page has made its last change, the engine has styled
\* nodes (its own writes happened with the observer connected) and is idle
\* with no timer pending.
C32_Witness ==
    /\ observer
    /\ domOps = MaxDomOps
    /\ rtlApplied # {}
    /\ \E n \in rtlApplied : n \in processedElements /\ isConnected(n)
    /\ Quiet

====
